---- MODULE Spec2Model ----
(***************************************************************************)
(* Database client provider and health probe of live-pce.                  *)
(*                                                                         *)
(*   src/unnamed/part_002  lazily initialised client behind a Proxy        *)
(*                         (getPrismaClient, prisma)                       *)
(*   src/lib/prisma.ts     eagerly initialised client for the Neon pooler  *)
(*                         (getDatabaseUrl, prisma)                        *)
(*   src/unnamed/part_000  GET /api/health, which imports '@/lib/prisma'   *)
(*                                                                         *)
(* The repository holds both client modules; which of them the route's    *)
(* import resolves to is a property of the build: the variable provider    *)
(* holds it and it never changes.                                          *)
(*                                                                         *)
(* JavaScript runs each synchronous stretch of code to completion, so      *)
(* every action below is one such stretch: a call of getPrismaClient, the  *)
(* part of GET up to its first await, or the continuation that follows the *)
(* settling of a promise.                                                  *)
(*                                                                         *)
(* Left out, because nothing that is checked reads it: the log option of   *)
(* the PrismaClient constructor, the console output, the sqlite file path  *)
(* computed at part_002:44-53, the rewriting of the query parameters in    *)
(* getDatabaseUrl (prisma.ts:16-47), and the environment and timestamp     *)
(* fields of the response body.                                            *)
(***************************************************************************)
EXTENDS Integers, Sequences, FiniteSets, TLC

VARIABLES
  env,          \* process.env.DATABASE_URL: Unset or a string
  globalPrisma, \* globalForPrisma.prisma: NoHandle (undefined) or a handle
  made,         \* number of PrismaClient objects constructed so far
  handed,       \* the handles the client module has handed to a caller
  last,         \* outcome of the getPrismaClient call just made, else NoCall
  failed,       \* whether some getPrismaClient call has raised
  provider,     \* the module '@/lib/prisma' resolves to: "proxy" or "neon"
  loaded,       \* whether the neon module has been evaluated successfully
  pc,           \* per request: position of GET
  race,         \* per request: state of the Promise.race promise
  liveQ,        \* per request: state of the SELECT 1 query
  timer,        \* per request: state of the setTimeout timer
  metaQ,        \* per request: state of the information_schema query
  resp,         \* per request: the response GET returned, else NoResp
  respCount,    \* per request: number of responses produced
  cause         \* per request: stage and backend error behind a failure

vars == <<env, globalPrisma, made, handed, last, failed, provider, loaded,
          pc, race, liveQ, timer, metaQ, resp, respCount, cause>>

probeVars == <<pc, race, liveQ, timer, metaQ, resp, respCount, cause>>

(***************************************************************************)
(* Bounds.                                                                 *)
(***************************************************************************)
MaxUrlLen == 2     \* longest DATABASE_URL, in tokens
NumReqs == 1       \* number of GET requests

(***************************************************************************)
(* Strings.  A connection string is a sequence of tokens: a blank, the two *)
(* quote characters, the three scheme prefixes the code tests for, and a   *)
(* token standing for any other text.                                      *)
(***************************************************************************)
Blank == " "
Quotes == {"\"", "'"}
Tokens == {Blank, "\"", "'", "file:", "postgresql://", "postgres://", "x"}

Unset == <<"undefined">>

SeqsUpTo(n) == UNION {[1..k -> Tokens] : k \in 0..n}

EnvValues(n) == {Unset} \cup SeqsUpTo(n)

\* The values of DATABASE_URL the probe is run with: absent, empty, empty
\* after parsing, and one for each branch of getPrismaClient.
ProbeUrls ==
  {Unset, <<>>, <<"\"", "\"">>, <<"file:", "x">>, <<"postgres://", "x">>, <<"x">>}

Reqs == 1..NumReqs

\* String.prototype.trim
RECURSIVE TrimLeft(_)
TrimLeft(s) ==
  IF s # <<>> /\ Head(s) = Blank THEN TrimLeft(Tail(s)) ELSE s

RECURSIVE TrimRight(_)
TrimRight(s) ==
  IF s # <<>> /\ s[Len(s)] = Blank
    THEN TrimRight(SubSeq(s, 1, Len(s) - 1))
    ELSE s

Trim(s) == TrimRight(TrimLeft(s))

\* s.replace(/^["']|["']$/g, ''): the matches do not overlap, so a string
\* that is one quote character loses it once.
StripQuotes(s) ==
  LET a == IF s # <<>> /\ Head(s) \in Quotes THEN Tail(s) ELSE s
  IN  IF a # <<>> /\ a[Len(a)] \in Quotes
        THEN SubSeq(a, 1, Len(a) - 1)
        ELSE a

\* databaseUrl after the try block of getPrismaClient
Normalize(raw) ==
  LET t == Trim(raw)
  IN  IF t # <<>> THEN StripQuotes(t) ELSE t

StartsWith(s, tok) == s # <<>> /\ Head(s) = tok

(***************************************************************************)
(* Errors and handles.                                                     *)
(***************************************************************************)
NoCode == ""
Codes == {"P1001", "P1017", "P1000", "P2010", NoCode}

Err(m, c) == [message |-> m, code |-> c]
NoErr == Err("<none>", NoCode)

\* What a library call (a constructor, a query) may throw: an error with a
\* message and any code, or an error with neither.
BackendErrors == {Err("backend failure", c) : c \in Codes} \cup {Err("", NoCode)}

NotSetMsg == "DATABASE_URL environment variable is not set. Please add it to your .env file."
EmptyMsg == "DATABASE_URL is empty after parsing."
SqlitePrefix == "Failed to initialize Prisma with SQLite: "
ProxyPrefix == "Failed to initialize database connection: "
NeonNotSetMsg == "DATABASE_URL environment variable is not set"
TimeoutMsg == "Connection timeout"

\* `${error?.message || error}`: String(error) of an Error with an empty
\* message is its name.
Describe(e) == IF e.message # "" THEN e.message ELSE "Error"

Handle(i, k) == [id |-> i, kind |-> k]
NoHandle == Handle(0, "none")

(***************************************************************************)
(* part_002: getPrismaClient.                                              *)
(***************************************************************************)
\* variant: the cached handle is never used
CacheHitNever(cache) == FALSE

\* line 9: if (globalForPrisma.prisma)
CacheHit(cache) == cache # NoHandle

\* variant: the check of line 30 is missing
ConfigErrorUnsetOnly(raw) ==
  IF raw = Unset \/ raw = <<>> THEN NotSetMsg ELSE ""

\* lines 14-32: the message of the configuration error thrown for the raw
\* value of DATABASE_URL, or "" when none is thrown.  !rawDatabaseUrl holds
\* of undefined and of the empty string.
ConfigError(raw) ==
  IF raw = Unset \/ raw = <<>> THEN NotSetMsg
  ELSE IF Normalize(raw) = <<>> THEN EmptyMsg
  ELSE ""

\* variant: line 70 tests for 'postgresql://' alone
SelectPathOneScheme(url) ==
  IF StartsWith(url, "file:") THEN "file"
  ELSE IF StartsWith(url, "postgresql://") THEN "pg"
  ELSE "default"

\* lines 35, 70, 103: the branch taken for the normalized string
SelectPath(url) ==
  IF StartsWith(url, "file:") THEN "file"
  ELSE IF StartsWith(url, "postgresql://") \/ StartsWith(url, "postgres://") THEN "pg"
  ELSE "default"

\* variant: the postgres branch rethrows as the file branch does
OnFailureRethrow(path) ==
  IF path = "file" \/ path = "pg" THEN "rethrow" ELSE "propagate"

\* lines 64-69, 91-102: what follows a throw inside the branch.  The file
\* branch rethrows a new Error, the postgres branch constructs the fallback
\* client, the default branch has no try around its constructor.
OnFailure(path) ==
  IF path = "file" THEN "rethrow"
  ELSE IF path = "pg" THEN "fallback"
  ELSE "propagate"

\* the kind of client each branch constructs (lines 60, 87, 94, 105)
KindOf(path) ==
  IF path = "file" THEN "sqlite" ELSE IF path = "pg" THEN "pg" ELSE "default"

\* variant: the assignment of line 112 is missing
StoreNothing(cache, client) == cache

\* line 112: globalForPrisma.prisma = client
Store(cache, client) == client

Result(o, h, e, p, fb, c, n) ==
  [outcome |-> o, handle |-> h, err |-> e, path |-> p, fellBack |-> fb,
   cache |-> c, made |-> n]

\* lines 8-115.  cache, raw and n are the state read (the cache, the
\* environment variable, the number of clients constructed); ok1 says
\* whether the branch's construction (require, Pool, adapter, PrismaClient)
\* succeeds and e1 is what it throws otherwise; ok2 and e2 are the same for
\* the fallback constructor of lines 94-101.
GetPrismaClient(cache, raw, n, ok1, e1, ok2, e2) ==
  IF CacheHit(cache) THEN
    Result("returned", cache, NoErr, "cached", FALSE, cache, n)
  ELSE IF ConfigError(raw) # "" THEN
    Result("raised", NoHandle, Err(ConfigError(raw), NoCode), "config",
           FALSE, cache, n)
  ELSE
    LET path == SelectPath(Normalize(raw))
        fresh == Handle(n + 1, KindOf(path))
        spare == Handle(n + 1, "datasources")
    IN  IF ok1 THEN
          Result("returned", fresh, NoErr, path, FALSE, Store(cache, fresh), n + 1)
        ELSE IF OnFailure(path) = "rethrow" THEN
          Result("raised", NoHandle, Err(SqlitePrefix \o Describe(e1), NoCode),
                 path, FALSE, cache, n)
        ELSE IF OnFailure(path) = "fallback" THEN
          IF ok2
            THEN Result("returned", spare, NoErr, path, TRUE, Store(cache, spare), n + 1)
            ELSE Result("raised", NoHandle, e2, path, TRUE, cache, n)
        ELSE
          Result("raised", NoHandle, e1, path, FALSE, cache, n)

\* lines 118-133: the get trap of the exported Proxy.  A throw of
\* getPrismaClient is replaced by a new Error, which has no code.
ProxyGet(res) ==
  IF res.outcome = "returned"
    THEN [outcome |-> "returned", handle |-> res.handle, err |-> NoErr]
    ELSE [outcome |-> "raised", handle |-> NoHandle,
          err |-> Err(ProxyPrefix \o res.err.message, NoCode)]

NoCall ==
  [outcome |-> "none", handle |-> NoHandle, err |-> NoErr, thrown |-> NoErr,
   path |-> "none", fellBack |-> FALSE, tryFailed |-> FALSE,
   spareFailed |-> FALSE, before |-> NoHandle]

\* the record of a call: its result, what the Proxy threw, which of the
\* constructions it ran failed, and the cache it found
CallRecord(res, cache, ok1, ok2) ==
  [outcome |-> res.outcome, handle |-> res.handle, err |-> res.err,
   thrown |-> ProxyGet(res).err, path |-> res.path, fellBack |-> res.fellBack,
   tryFailed |-> (res.path \in {"file", "pg", "default"} /\ ~ok1),
   spareFailed |-> (res.fellBack /\ ~ok2),
   before |-> cache]

\* the effect of an access prisma.<prop> on the provider's state
Access(res, ok1, ok2) ==
  /\ globalPrisma' = res.cache
  /\ made' = res.made
  /\ handed' = IF res.outcome = "returned" THEN handed \cup {res.handle} ELSE handed
  /\ last' = CallRecord(res, globalPrisma, ok1, ok2)
  /\ failed' = (failed \/ res.outcome = "raised")

\* some caller reads a property of the exported prisma Proxy
Call ==
  /\ provider = "proxy"
  /\ \E ok1, ok2 \in BOOLEAN, e1, e2 \in BackendErrors :
       Access(GetPrismaClient(globalPrisma, env, made, ok1, e1, ok2, e2), ok1, ok2)
  /\ UNCHANGED <<env, provider, loaded, probeVars>>

\* the environment variable is set, changed or deleted
SetEnv(u) ==
  /\ env' = u
  /\ last' = NoCall
  /\ UNCHANGED <<globalPrisma, made, handed, failed, provider, loaded, probeVars>>

(***************************************************************************)
(* The health probe's state before any request.                            *)
(***************************************************************************)
NoResp == [status |-> 0]
NoCause == [stage |-> "none", err |-> NoErr, unset |-> FALSE]

ProbeInit ==
  /\ pc = [r \in Reqs |-> "idle"]
  /\ race = [r \in Reqs |-> "none"]
  /\ liveQ = [r \in Reqs |-> "none"]
  /\ timer = [r \in Reqs |-> "unset"]
  /\ metaQ = [r \in Reqs |-> "none"]
  /\ resp = [r \in Reqs |-> NoResp]
  /\ respCount = [r \in Reqs |-> 0]
  /\ cause = [r \in Reqs |-> NoCause]

ProviderInit ==
  /\ globalPrisma = NoHandle
  /\ made = 0
  /\ handed = {}
  /\ last = NoCall
  /\ failed = FALSE
  /\ loaded = FALSE

(***************************************************************************)
(* The client provider on its own: callers of the Proxy and the            *)
(* environment.                                                            *)
(***************************************************************************)
Init ==
  /\ env \in EnvValues(MaxUrlLen)
  /\ provider = "proxy"
  /\ ProviderInit
  /\ ProbeInit

Next ==
  \/ Call
  \/ \E u \in EnvValues(MaxUrlLen) : SetEnv(u)

Spec == Init /\ [][Next]_vars

(***************************************************************************)
(* src/lib/prisma.ts: the module's evaluation.                             *)
(***************************************************************************)
\* lines 9-12: if (!url) throw
UrlMissing(raw) == raw = Unset \/ raw = <<>>

\* lines 52-64: prisma = globalForPrisma.prisma ?? new PrismaClient({
\* datasourceUrl: getDatabaseUrl() }), then the cache is filled if unset.
\* ok says whether the constructor succeeds, e is what it throws otherwise.
LoadNeon(cache, raw, n, ok, e) ==
  IF cache # NoHandle THEN
    Result("returned", cache, NoErr, "cached", FALSE, cache, n)
  ELSE IF UrlMissing(raw) THEN
    Result("raised", NoHandle, Err(NeonNotSetMsg, NoCode), "config", FALSE, cache, n)
  ELSE IF ok THEN
    Result("returned", Handle(n + 1, "neon"), NoErr, "neon", FALSE,
           Handle(n + 1, "neon"), n + 1)
  ELSE
    Result("raised", NoHandle, e, "neon", FALSE, cache, n)

(***************************************************************************)
(* part_000: GET.                                                          *)
(***************************************************************************)
\* !!process.env.DATABASE_URL
HasUrl(raw) == raw # Unset /\ raw # <<>>

ConnectivityHint == "Check database connection string and network connectivity"
CredentialsHint == "Check database credentials"

\* lines 64-76: errorInfo.suggestion, "" when the field is not set
Suggestion(code) ==
  IF code = NoCode THEN ""
  ELSE IF code = "P1001" \/ code = "P1017" THEN ConnectivityHint
  ELSE IF code = "P1000" THEN CredentialsHint
  ELSE ""

\* lines 54-78: the response of the catch block; "" is an absent field
ErrorInfo(e, hasUrl) ==
  [status |-> 503,
   st |-> "unhealthy",
   database |-> "disconnected",
   error |-> IF e.message # "" THEN e.message ELSE "Unknown error",
   code |-> IF e.code # NoCode THEN e.code ELSE "UNKNOWN",
   prismaCode |-> e.code,
   suggestion |-> Suggestion(e.code),
   hasDatabaseUrl |-> hasUrl]

\* line 33: tableExists[0]?.exists ?? false, for the settled metadata query
Exists(result) == result = "rows:true"

\* variant: a missing table makes the probe unhealthy
HealthyNeedsTable(exists, hasUrl) ==
  [status |-> IF exists THEN 200 ELSE 503,
   st |-> IF exists THEN "healthy" ELSE "unhealthy",
   database |-> "connected",
   tables |-> IF exists THEN "exists" ELSE "missing",
   hasDatabaseUrl |-> hasUrl]

\* lines 35-44: the response of the success path
Healthy(exists, hasUrl) ==
  [status |-> 200,
   st |-> "healthy",
   database |-> "connected",
   tables |-> IF exists THEN "exists" ELSE "missing",
   hasDatabaseUrl |-> hasUrl]

\* variant: the last input to settle wins
RaceLastWins(state, ev) == ev

\* Promise.race (lines 13-18): the first input to settle settles the race,
\* later ones leave it alone.
Race(state, ev) == IF state = "pending" THEN ev ELSE state

MetaResults == {"rows:true", "rows:false", "rows:none"}

\* GET returns a response
Respond(r, body) ==
  /\ resp' = [resp EXCEPT ![r] = body]
  /\ respCount' = [respCount EXCEPT ![r] = @ + 1]
  /\ pc' = [pc EXCEPT ![r] = "done"]

\* lines 13-20: the liveness query is issued, the timer is set and GET
\* awaits the race
IssueLiveness(r) ==
  /\ liveQ' = [liveQ EXCEPT ![r] = "inflight"]
  /\ timer' = [timer EXCEPT ![r] = "armed"]
  /\ race' = [race EXCEPT ![r] = "pending"]
  /\ pc' = [pc EXCEPT ![r] = "awaitRace"]
  /\ UNCHANGED <<metaQ, resp, respCount, cause>>

\* the backend error behind a throw of getPrismaClient
Origin(res, e1, e2) ==
  IF res.path = "config" THEN res.err
  ELSE IF res.fellBack THEN e2
  ELSE e1

\* GET is invoked and the route's prisma is the Proxy of part_002: line 14
\* reads prisma.$queryRaw inside the try block
GETStartProxy(r) ==
  /\ provider = "proxy"
  /\ pc[r] = "idle"
  /\ \E ok1, ok2 \in BOOLEAN, e1, e2 \in BackendErrors :
       LET res == GetPrismaClient(globalPrisma, env, made, ok1, e1, ok2, e2)
       IN  /\ Access(res, ok1, ok2)
           /\ IF res.outcome = "returned"
                THEN IssueLiveness(r)
                ELSE /\ Respond(r, ErrorInfo(ProxyGet(res).err, HasUrl(env)))
                     /\ cause' = [cause EXCEPT ![r] =
                                    [stage |-> "acquire", err |-> Origin(res, e1, e2),
                                     unset |-> (env = Unset)]]
                     /\ UNCHANGED <<race, liveQ, timer, metaQ>>
  /\ UNCHANGED <<env, provider, loaded>>

\* GET is requested and the route's prisma is the client of src/lib/prisma.ts:
\* the route module's import evaluates that module before GET can run, and a
\* throw there fails the request outside GET's try block
GETStartNeon(r) ==
  /\ provider = "neon"
  /\ pc[r] = "idle"
  /\ IF loaded
       THEN /\ IssueLiveness(r)
            /\ last' = NoCall
            /\ UNCHANGED <<globalPrisma, made, handed, failed, loaded>>
       ELSE \E ok \in BOOLEAN, e \in BackendErrors :
              LET res == LoadNeon(globalPrisma, env, made, ok, e)
              IN  /\ globalPrisma' = res.cache
                  /\ made' = res.made
                  /\ handed' = IF res.outcome = "returned"
                                 THEN handed \cup {res.handle} ELSE handed
                  /\ last' = NoCall
                  /\ UNCHANGED failed
                  /\ loaded' = (res.outcome = "returned")
                  /\ IF res.outcome = "returned"
                       THEN IssueLiveness(r)
                       ELSE /\ pc' = [pc EXCEPT ![r] = "raised"]
                            /\ cause' = [cause EXCEPT ![r] =
                                           [stage |-> "acquire", err |-> res.err,
                                            unset |-> (env = Unset)]]
                            /\ UNCHANGED <<race, liveQ, timer, metaQ, resp, respCount>>
  /\ UNCHANGED <<env, provider>>

\* lines 20-31: GET resumes after the race resolved; line 23 reads
\* prisma.$queryRaw again and issues the metadata query
IssueMetadata(r) ==
  IF provider = "proxy"
    THEN \E ok1, ok2 \in BOOLEAN, e1, e2 \in BackendErrors :
           LET res == GetPrismaClient(globalPrisma, env, made, ok1, e1, ok2, e2)
           IN  /\ Access(res, ok1, ok2)
               /\ IF res.outcome = "returned"
                    THEN /\ metaQ' = [metaQ EXCEPT ![r] = "inflight"]
                         /\ pc' = [pc EXCEPT ![r] = "awaitMeta"]
                         /\ UNCHANGED <<resp, respCount, cause>>
                    ELSE /\ Respond(r, ErrorInfo(ProxyGet(res).err, HasUrl(env)))
                         /\ cause' = [cause EXCEPT ![r] =
                                        [stage |-> "acquire", err |-> Origin(res, e1, e2),
                                     unset |-> (env = Unset)]]
                         /\ UNCHANGED metaQ
    ELSE /\ metaQ' = [metaQ EXCEPT ![r] = "inflight"]
         /\ pc' = [pc EXCEPT ![r] = "awaitMeta"]
         /\ last' = NoCall
         /\ UNCHANGED <<globalPrisma, made, handed, failed, resp, respCount, cause>>

\* lines 45-78: GET resumes in the catch block with the race's rejection
Catch(r, stage, e) ==
  /\ Respond(r, ErrorInfo(e, HasUrl(env)))
  /\ cause' = [cause EXCEPT ![r] = [stage |-> stage, err |-> e, unset |-> (env = Unset)]]

Idle(r) == UNCHANGED <<pc, resp, respCount, cause>>

\* the liveness query resolves
LiveResolve(r) ==
  /\ liveQ[r] = "inflight"
  /\ liveQ' = [liveQ EXCEPT ![r] = "resolved"]
  /\ race' = [race EXCEPT ![r] = Race(@, "resolved")]
  /\ IF race'[r] # race[r]
       THEN IssueMetadata(r)
       ELSE /\ Idle(r)
            /\ last' = NoCall
            /\ UNCHANGED <<globalPrisma, made, handed, failed, metaQ>>
  /\ UNCHANGED <<env, provider, loaded, timer>>

\* the liveness query rejects with e
LiveReject(r, e) ==
  /\ liveQ[r] = "inflight"
  /\ liveQ' = [liveQ EXCEPT ![r] = "rejected"]
  /\ race' = [race EXCEPT ![r] = Race(@, "rejected")]
  /\ IF race'[r] # race[r] THEN Catch(r, "liveness", e) ELSE Idle(r)
  /\ last' = NoCall
  /\ UNCHANGED <<env, globalPrisma, made, handed, failed, provider, loaded, timer, metaQ>>

\* line 16: the timer fires and rejects its promise
TimerFire(r) ==
  /\ timer[r] = "armed"
  /\ timer' = [timer EXCEPT ![r] = "fired"]
  /\ race' = [race EXCEPT ![r] = Race(@, "timeout")]
  /\ IF race'[r] # race[r]
       THEN Catch(r, "timeout", Err(TimeoutMsg, NoCode))
       ELSE Idle(r)
  /\ last' = NoCall
  /\ UNCHANGED <<env, globalPrisma, made, handed, failed, provider, loaded, liveQ, metaQ>>

\* the metadata query resolves and GET returns the success response
MetaResolve(r, result) ==
  /\ metaQ[r] = "inflight"
  /\ metaQ' = [metaQ EXCEPT ![r] = result]
  /\ Respond(r, Healthy(Exists(result), HasUrl(env)))
  /\ last' = NoCall
  /\ UNCHANGED <<env, globalPrisma, made, handed, failed, provider, loaded,
                 race, liveQ, timer, cause>>

\* the metadata query rejects with e
MetaReject(r, e) ==
  /\ metaQ[r] = "inflight"
  /\ metaQ' = [metaQ EXCEPT ![r] = "rejected"]
  /\ Catch(r, "metadata", e)
  /\ last' = NoCall
  /\ UNCHANGED <<env, globalPrisma, made, handed, failed, provider, loaded,
                 race, liveQ, timer>>

(***************************************************************************)
(* The health probe with the client module it imports.                     *)
(***************************************************************************)
InitProbe ==
  /\ env \in ProbeUrls
  /\ provider \in {"proxy", "neon"}
  /\ ProviderInit
  /\ ProbeInit

NextProbe ==
  \/ \E u \in ProbeUrls : SetEnv(u)
  \/ \E r \in Reqs : GETStartProxy(r)
  \/ \E r \in Reqs : GETStartNeon(r)
  \/ \E r \in Reqs : LiveResolve(r)
  \/ \E r \in Reqs, e \in BackendErrors : LiveReject(r, e)
  \/ \E r \in Reqs : TimerFire(r)
  \/ \E r \in Reqs, result \in MetaResults : MetaResolve(r, result)
  \/ \E r \in Reqs, e \in BackendErrors : MetaReject(r, e)

ProbeSpec == InitProbe /\ [][NextProbe]_vars

\* The runtime fires every timer that was set; nothing obliges the database
\* to answer a query.
FairProbeSpec == ProbeSpec /\ \A r \in Reqs : WF_vars(TimerFire(r))

(***************************************************************************)
(* Properties of the client provider, checked under Spec.  last describes  *)
(* the call just made and env is the environment that call read.           *)
(***************************************************************************)
AllBlank(s) == \A i \in 1..Len(s) : s[i] = Blank

\* raw is blanks, then at most two quote characters, then blanks: what is
\* left empty by trimming and then removing one quote at each end
CleansToEmpty(raw) ==
  \E i, j \in 0..Len(raw) :
    /\ i <= j
    /\ j - i <= 2
    /\ AllBlank(SubSeq(raw, 1, i))
    /\ \A k \in (i + 1)..j : raw[k] \in Quotes
    /\ AllBlank(SubSeq(raw, j + 1, Len(raw)))

MissingOrEmpty(raw) == raw = Unset \/ CleansToEmpty(raw)

Called == last.outcome # "none"

ConfigMessages == {NotSetMsg, EmptyMsg}

\* C1: at most one client handle is ever constructed and cached; once a call
\* has returned a handle, every later call returns that handle and the
\* cached handle is never replaced.
C1_SingleHandle ==
  /\ made <= 1
  /\ Cardinality(handed) <= 1
  /\ handed # {} => handed = {globalPrisma}
  /\ (Called /\ last.before # NoHandle) =>
       /\ last.outcome = "returned"
       /\ last.handle = last.before
       /\ globalPrisma = last.before

\* a later call has returned the handle an earlier call cached
C1_Witness ==
  /\ last.outcome = "returned"
  /\ last.before # NoHandle
  /\ last.handle = last.before

\* C2 as stated: every call made while DATABASE_URL is missing or empty after
\* cleaning raises a configuration error and returns no handle, also after
\* an earlier call succeeded.
C2_AlwaysRaises ==
  (Called /\ MissingOrEmpty(env)) =>
    /\ last.outcome = "raised"
    /\ last.err.message \in ConfigMessages
    /\ last.handle = NoHandle

\* C2 amended: every call made while no handle is cached and DATABASE_URL is
\* missing or empty after cleaning raises a configuration error, returns no
\* handle and caches none.
C2_RaisesWhenUncached ==
  (Called /\ last.before = NoHandle /\ MissingOrEmpty(env)) =>
    /\ last.outcome = "raised"
    /\ last.err.message \in ConfigMessages
    /\ last.thrown.message = ProxyPrefix \o last.err.message
    /\ last.handle = NoHandle
    /\ globalPrisma = NoHandle

\* a call found the variable set to quotes and blanks only, and raised
C2_Witness ==
  /\ last.outcome = "raised"
  /\ last.path = "config"
  /\ env # Unset
  /\ env # <<>>

\* C7: the branch an initialization takes is decided by the normalized
\* connection string alone: postgres:// and postgresql:// take the pooled
\* adapter branch, file: the file-backed branch, anything else non-empty the
\* default branch, and one client at most is constructed.
C7_PathByPrefix ==
  (Called /\ last.before = NoHandle /\ env # Unset /\ Normalize(env) # <<>>) =>
    LET first == Head(Normalize(env))
    IN  /\ first \in {"postgres://", "postgresql://"} => last.path = "pg"
        /\ first = "file:" => last.path = "file"
        /\ first \notin {"postgres://", "postgresql://", "file:"} =>
             last.path = "default"
        /\ last.outcome = "returned" =>
             /\ made = 1
             /\ last.path = "file" => last.handle.kind = "sqlite"
             /\ last.path = "pg" => last.handle.kind \in {"pg", "datasources"}
             /\ last.path = "default" => last.handle.kind = "default"

\* a quoted, padded postgres:// string took the pooled adapter branch
C7_Witness ==
  /\ last.outcome = "returned"
  /\ last.path = "pg"
  /\ last.handle.kind = "pg"
  /\ env # Unset
  /\ Len(env) = 2
  /\ env[1] \in Quotes \cup {Blank}
  /\ env[2] = "postgres://"

\* C8 as stated: a failure while constructing the postgres pool or adapter
\* never makes the call raise: the fallback client is constructed, cached
\* and returned; a failure of the file-backed construction propagates.
C8_FallbackNeverRaises ==
  /\ (Called /\ last.path = "pg" /\ last.tryFailed) =>
       /\ last.outcome = "returned"
       /\ last.handle.kind = "datasources"
       /\ globalPrisma = last.handle
  /\ (Called /\ last.path = "file" /\ last.tryFailed) =>
       last.outcome = "raised"

\* C8 amended: after a failure while constructing the postgres pool or
\* adapter the call constructs the fallback client; when that construction
\* succeeds the call returns the fallback handle and caches it, so later
\* calls return it, and when it throws the call raises that error and
\* caches nothing; a failure of the file-backed construction propagates.
C8_FallbackUnlessItThrows ==
  /\ (Called /\ last.path = "pg" /\ last.tryFailed) =>
       /\ last.fellBack
       /\ ~last.spareFailed =>
            /\ last.outcome = "returned"
            /\ last.handle.kind = "datasources"
            /\ globalPrisma = last.handle
       /\ last.spareFailed =>
            /\ last.outcome = "raised"
            /\ last.err \in BackendErrors
            /\ globalPrisma = NoHandle
  /\ (Called /\ last.path = "file" /\ last.tryFailed) =>
       /\ last.outcome = "raised"
       /\ ~last.fellBack
       /\ globalPrisma = NoHandle
  /\ (Called /\ last.path = "cached" /\ last.before.kind = "datasources") =>
       /\ last.outcome = "returned"
       /\ last.handle = last.before

\* the postgres construction failed and the call returned the fallback
C8_Witness ==
  /\ last.path = "pg"
  /\ last.tryFailed
  /\ last.outcome = "returned"
  /\ last.handle.kind = "datasources"

\* C10: a call that raises leaves the cache as it was, unset; the next call
\* reads DATABASE_URL again and initializes when the value is usable; the
\* cache is set exactly when some call has returned a handle.
C10_FailureNotSticky ==
  /\ last.outcome = "raised" =>
       /\ last.before = NoHandle
       /\ globalPrisma = NoHandle
  /\ (globalPrisma # NoHandle) <=> (handed # {})
  /\ (Called /\ last.before = NoHandle) => last.path # "cached"
  /\ (Called /\ failed /\ last.before = NoHandle /\ ~MissingOrEmpty(env)
        /\ ~last.tryFailed) =>
       /\ last.outcome = "returned"
       /\ globalPrisma = last.handle

\* a call initialized the client after an earlier call had raised
C10_Witness ==
  /\ failed
  /\ last.outcome = "returned"
  /\ last.before = NoHandle
  /\ globalPrisma = last.handle

(***************************************************************************)
(* Properties of the health probe, checked under ProbeSpec.  cause[r]      *)
(* holds the stage at which request r failed and the error the backend or  *)
(* the configuration check raised there.                                   *)
(***************************************************************************)
Failed(r) == cause[r].stage # "none"

\* the suggestion the error code of a failure calls for
HintFor(code) ==
  CASE code \in {"P1001", "P1017"} -> ConnectivityHint
    [] code = "P1000" -> CredentialsHint
    [] OTHER -> ""

\* C3: GET never raises: every failure of client acquisition, of the
\* liveness query or of the metadata query becomes a 503 response with
\* status "unhealthy", database "disconnected" and an error message, which
\* is "DATABASE_URL environment variable is not set" when the variable is
\* unset.
C3_FailuresBecome503 ==
  \A r \in Reqs :
    /\ pc[r] # "raised"
    /\ Failed(r) =>
         /\ pc[r] = "done"
         /\ resp[r].status = 503
         /\ resp[r].st = "unhealthy"
         /\ resp[r].database = "disconnected"
         /\ resp[r].error # ""
    /\ (cause[r].stage = "acquire" /\ cause[r].unset) =>
         /\ resp[r].status = 503
         /\ resp[r].error = "DATABASE_URL environment variable is not set"

\* C4 as stated: whenever the liveness query resolves before the timer
\* fires, the response is 200, "healthy", "connected".
C4_LivenessDecides ==
  \A r \in Reqs :
    (race[r] = "resolved" /\ pc[r] = "done") =>
      /\ resp[r].status = 200
      /\ resp[r].st = "healthy"
      /\ resp[r].database = "connected"

\* C4 amended: whenever the liveness query resolves before the timer fires
\* and the metadata query then resolves, the response is 200, "healthy",
\* "connected", with tables.client_users "exists" when the first row says so
\* and "missing" otherwise; when the metadata query rejects instead, the
\* response is the 503 of the catch block.
C4_HealthyWhenBothResolve ==
  \A r \in Reqs :
    /\ (race[r] = "resolved" /\ metaQ[r] \in MetaResults) =>
         /\ pc[r] = "done"
         /\ respCount[r] = 1
         /\ resp[r].status = 200
         /\ resp[r].st = "healthy"
         /\ resp[r].database = "connected"
         /\ resp[r].tables = IF metaQ[r] = "rows:true" THEN "exists" ELSE "missing"
    /\ (race[r] = "resolved" /\ metaQ[r] = "rejected") =>
         /\ pc[r] = "done"
         /\ resp[r].status = 503
         /\ resp[r].database = "disconnected"
    /\ (pc[r] = "done" /\ resp[r].status = 200) =>
         /\ race[r] = "resolved"
         /\ metaQ[r] \in MetaResults

\* the liveness query resolved in time, the table is absent, and the probe
\* answered 200
C4_Witness ==
  \E r \in Reqs :
    /\ race[r] = "resolved"
    /\ timer[r] = "armed"
    /\ metaQ[r] = "rows:false"
    /\ resp[r].status = 200
    /\ resp[r].tables = "missing"

\* C5: when the timer fires while the liveness query is still pending, the
\* response is 503, "disconnected", "Connection timeout"; the abandoned
\* query's later completion neither changes it nor produces another.
C5_TimeoutIsFinal ==
  \A r \in Reqs :
    cause[r].stage = "timeout" =>
      /\ pc[r] = "done"
      /\ respCount[r] = 1
      /\ metaQ[r] = "none"
      /\ resp[r].status = 503
      /\ resp[r].st = "unhealthy"
      /\ resp[r].database = "disconnected"
      /\ resp[r].error = TimeoutMsg
      /\ resp[r].code = "UNKNOWN"
      /\ resp[r].suggestion = ""

\* the probe timed out and the abandoned liveness query then resolved
C5_Witness ==
  \E r \in Reqs :
    /\ cause[r].stage = "timeout"
    /\ timer[r] = "fired"
    /\ liveQ[r] = "resolved"
    /\ resp[r].status = 503

\* C6: the suggestion of every 503 is the one the failure's backend error
\* code calls for, also when the error was raised while acquiring the
\* client; without a code there is none and the code field is "UNKNOWN".
C6_SuggestionByCode ==
  \A r \in Reqs :
    (Failed(r) /\ resp[r].status = 503) =>
      /\ resp[r].suggestion = HintFor(cause[r].err.code)
      /\ cause[r].err.code = NoCode => resp[r].code = "UNKNOWN"

\* C9: every invocation of GET that waits for a query eventually returns a
\* response, whether or not the query completes.
C9_AlwaysResponds ==
  \A r \in Reqs : (pc[r] \in {"awaitRace", "awaitMeta"}) ~> (pc[r] = "done")

====
